---- MODULE Spec2Model ----
(***************************************************************************)
(* Model of Lumus_Max9814.ino: an ADC capture task (capture_samples ->     *)
(* audio_inference_callback) fills inference.buffer and raises buf_ready;  *)
(* the Arduino loop() polls buf_ready (microphone_inference_record),       *)
(* clears it, runs the classifier over the buffer and drives pin 33.       *)
(*                                                                         *)
(* The two contexts are FreeRTOS tasks of different priority that may run  *)
(* on different cores, so every statement that touches shared state is a   *)
(* step of its own and the steps interleave freely.                        *)
(*                                                                         *)
(* Spec      : the sketch as shipped: setup() calls                        *)
(*             microphone_inference_start once, loop() runs forever,       *)
(*             microphone_inference_end is never called.                   *)
(* EndSpec   : Spec plus a lifecycle context that calls                    *)
(*             microphone_inference_end at any time.                       *)
(* RestartSpec : setup() and the capture tasks plus a lifecycle context    *)
(*             that calls microphone_inference_start and                   *)
(*             microphone_inference_end at any time.                       *)
(***************************************************************************)
EXTENDS Integers, Sequences, FiniteSets

(* ------------------------------ bounds --------------------------------- *)

\* Scaled-down size of the scratch batch (sample_buffer_size is 2048).
BatchSize == 2

\* Window sizes 1..MaxWindow stand for EI_CLASSIFIER_RAW_SAMPLE_COUNT.
MaxWindow == 3

\* Calls of microphone_inference_start made by the lifecycle context.
MaxStarts == 1

\* Calls of microphone_inference_end made by the lifecycle context.
MaxEnds == 2

\* The ghost count of completed, not yet claimed windows saturates here.
MaxUnclaimed == 2

(* --------------------------- program constants ------------------------- *)

\* static const uint32_t sample_buffer_size (scaled to BatchSize).
sample_buffer_size == BatchSize

\* if (result.classification[0].value > 0.40000), in units of 0.00001.
Threshold == 40000

\* Two distinguishable ADC readings: the code copies readings and never
\* looks at their value.
Samples == {0, 1}

WindowSizes == 1..MaxWindow

\* One task for setup's start and one for each later start.
TaskIds == 1..(MaxStarts + 1)

\* Confidences of label 0 the classifier may report (units of 0.00001).
Confidences == {Threshold - 1, Threshold, Threshold + 1}

VARIABLES
    buffer,         \* inference.buffer: contents of the block it points to
    heap,           \* state of that block: "null", "live" or "freed"
    buf_ready,      \* inference.buf_ready
    buf_count,      \* inference.buf_count
    n_samples,      \* inference.n_samples
    record_status,  \* static bool record_status
    sampleBuffer,   \* static signed short sampleBuffer[sample_buffer_size]
    tasks,          \* capture tasks: position (pc), loop index (i), and the
                    \* ghost count of the appends of the current cycle
    mainPc,         \* position of the Arduino main task (setup, then loop)
    r,              \* EI_IMPULSE_ERROR r of this loop() pass ("none" when dead)
    conf,           \* result.classification[0].value of this loop() pass
    actuator,       \* level of pin 33
    startRet,       \* what setup's microphone_inference_start returned
    nStarts,        \* lifecycle calls of microphone_inference_start so far
    nEnds,          \* lifecycle calls of microphone_inference_end so far
    nSpawn,         \* ghost: xTaskCreate calls so far
    nAlloc,         \* ghost: successful malloc calls so far
    nFree,          \* ghost: ei_free calls on a non-null pointer so far
    faults,         \* ghost: memory errors that have happened
    hist,           \* ghost: the last n_samples values appended, in order
    completedWin,   \* ghost: the values of the window that last raised buf_ready
    claimedWin,     \* ghost: hist as it was at the consumer's claim
    sinceReady,     \* ghost: appends since buf_ready was last written (or start)
    unclaimed       \* ghost: windows completed and not claimed (saturating)

vars == <<buffer, heap, buf_ready, buf_count, n_samples, record_status,
          sampleBuffer, tasks, mainPc, r, conf, actuator, startRet,
          nStarts, nEnds, nSpawn, nAlloc, nFree, faults, hist, completedWin,
          claimedWin, sinceReady, unclaimed>>

progVars == <<buffer, heap, buf_ready, buf_count, n_samples, record_status,
              sampleBuffer, tasks, mainPc, r, conf, actuator, startRet>>

ghostVars == <<nSpawn, nAlloc, nFree, faults, hist, completedWin, claimedWin,
               sinceReady, unclaimed>>

(* ------------------------------ helpers -------------------------------- *)

Min(a, b) == IF a < b THEN a ELSE b

\* The last n elements of s (all of s when it is shorter).
LastN(s, n) ==
    IF Len(s) <= n THEN s ELSE SubSeq(s, Len(s) - n + 1, Len(s))

NoTask == [pc |-> "none", i |-> 0, appended |-> 0]

Alive(t) == tasks[t].pc \notin {"none", "deleted"}

AliveTasks == {t \in TaskIds : Alive(t)}

Init ==
    /\ buffer = <<>>
    /\ heap = "null"
    /\ buf_ready = 0
    /\ buf_count = 0
    /\ n_samples = 0
    /\ record_status = TRUE
    /\ sampleBuffer = [k \in 1..sample_buffer_size |-> 0]
    /\ tasks = [t \in TaskIds |-> NoTask]
    /\ mainPc = "setup"
    /\ r = "none"
    /\ conf = 0
    /\ actuator = "LOW"
    /\ startRet = "none"
    /\ nStarts = 0
    /\ nEnds = 0
    /\ nSpawn = 0
    /\ nAlloc = 0
    /\ nFree = 0
    /\ faults = {}
    /\ hist = <<>>
    /\ completedWin = <<>>
    /\ claimedWin = <<>>
    /\ sinceReady = 0
    /\ unclaimed = 0


(* ------------------------- lifecycle: start ---------------------------- *)

\* microphone_inference_start as it would be without the NULL check of
\* line 217: a failed allocation still initialises and spawns (a faulty
\* variant, used to test C9).
start_without_null_check(n, ok) ==
    /\ heap' = IF ok THEN "live" ELSE "null"
    /\ IF ok THEN buffer' \in [1..n -> Samples] ELSE buffer' = <<>>
    /\ nAlloc' = IF ok THEN nAlloc + 1 ELSE nAlloc
    /\ buf_count' = 0
    /\ n_samples' = n
    /\ buf_ready' = 0
    /\ record_status' = TRUE
    /\ tasks' = [tasks EXCEPT ![nSpawn + 1] = [pc |-> "while", i |-> 0, appended |-> 0]]
    /\ nSpawn' = nSpawn + 1
    /\ hist' = <<>>
    /\ completedWin' = <<>>
    /\ sinceReady' = 0
    /\ unclaimed' = 0

\* microphone_inference_start(n_samples); ok is the outcome of malloc.
\* A fresh block holds arbitrary values.  The pointer to an earlier block
\* is overwritten (that block is neither freed nor reachable any more).
microphone_inference_start(n, ok) ==
    IF ~ok
    THEN /\ heap' = "null"
         /\ buffer' = <<>>
         /\ UNCHANGED <<buf_count, n_samples, buf_ready, record_status,
                        tasks, nSpawn, nAlloc, hist, completedWin,
                        sinceReady, unclaimed>>
    ELSE /\ heap' = "live"
         /\ buffer' \in [1..n -> Samples]
         /\ nAlloc' = nAlloc + 1
         /\ buf_count' = 0
         /\ n_samples' = n
         /\ buf_ready' = 0
         /\ record_status' = TRUE
         /\ tasks' = [tasks EXCEPT ![nSpawn + 1] = [pc |-> "while", i |-> 0, appended |-> 0]]
         /\ nSpawn' = nSpawn + 1
         /\ hist' = <<>>
         /\ completedWin' = <<>>
         /\ sinceReady' = 0
         /\ unclaimed' = 0

\* setup(): the one call of microphone_inference_start the sketch makes;
\* loop() runs afterwards whatever it returned.
Setup ==
    /\ mainPc = "setup"
    /\ \E n \in WindowSizes, ok \in BOOLEAN :
          /\ microphone_inference_start(n, ok)
          /\ startRet' = IF ok THEN "true" ELSE "false"
    /\ mainPc' = "record"
    /\ UNCHANGED <<sampleBuffer, r, conf, actuator, nStarts, nEnds, nFree,
                   faults, claimedWin>>

(* ---------------------- capture task (producer) ------------------------ *)

\* WindowFull with an off-by-one: the window counts as full one sample
\* early (a faulty variant, used to test C3).
WindowFullOneEarly(count, n) == count + 1 >= n

\* WindowFull with > for >= (a faulty variant, used to test C6).
WindowFullStrict(count, n) == count > n

\* if (inference.buf_count >= inference.n_samples)
WindowFull(count, n) == count >= n

\* The for loop of audio_inference_callback leaving one sample early: the
\* test made as i + 1 < n_samples - 1 (a faulty variant, used to test C13).
NextSampleOneShort(t) ==
    [pc |-> IF tasks[t].i + 2 < sample_buffer_size THEN "append" ELSE "delay",
     i  |-> tasks[t].i + 1,
     appended |-> tasks[t].appended]

\* The loop index moves on: i++ and the test i < n_samples of the for loop
\* in audio_inference_callback; after the last sample the callback returns
\* to capture_samples, which goes to vTaskDelay.
NextSample(t) ==
    [pc |-> IF tasks[t].i + 1 < sample_buffer_size THEN "append" ELSE "delay",
     i  |-> tasks[t].i + 1,
     appended |-> tasks[t].appended]

\* The loop as while (true): the flag is not looked at before a batch is
\* read (a faulty variant, used to test C15).
WhileCheckIgnoresFlag(t) ==
    /\ tasks[t].pc = "while"
    /\ tasks' = [tasks EXCEPT ![t] = [pc |-> "read", i |-> 0, appended |-> 0]]
    /\ UNCHANGED <<buffer, heap, buf_ready, buf_count, n_samples,
                   record_status, sampleBuffer, mainPc, conf, actuator,
                   startRet, r, nStarts, nEnds>>
    /\ UNCHANGED ghostVars

\* while (record_status): the task leaves the loop and deletes itself
\* (vTaskDelete(NULL)) when the flag is false.
WhileCheck(t) ==
    /\ tasks[t].pc = "while"
    /\ tasks' = [tasks EXCEPT ![t] =
                    IF record_status THEN [pc |-> "read", i |-> 0, appended |-> 0]
                    ELSE [pc |-> "deleted", i |-> 0, appended |-> 0]]
    /\ UNCHANGED <<buffer, heap, buf_ready, buf_count, n_samples,
                   record_status, sampleBuffer, mainPc, conf, actuator,
                   startRet, r, nStarts, nEnds>>
    /\ UNCHANGED ghostVars

\* sampleBuffer[i] = adc1_get_raw(ADC1_CHANNEL_6), one sample per step.
ReadSample(t) ==
    /\ tasks[t].pc = "read"
    /\ \E s \in Samples :
          sampleBuffer' = [sampleBuffer EXCEPT ![tasks[t].i + 1] = s]
    /\ tasks' = [tasks EXCEPT ![t] =
                    [pc |-> IF tasks[t].i + 1 < sample_buffer_size
                            THEN "read" ELSE "if",
                     i  |-> tasks[t].i + 1,
                     appended |-> 0]]
    /\ UNCHANGED <<buffer, heap, buf_ready, buf_count, n_samples,
                   record_status, mainPc, conf, actuator, startRet, r,
                   nStarts, nEnds>>
    /\ UNCHANGED ghostVars

\* if (record_status) audio_inference_callback(...) else break;
IfCheck(t) ==
    /\ tasks[t].pc = "if"
    /\ tasks' = [tasks EXCEPT ![t] =
                    IF record_status THEN [pc |-> "append", i |-> 0, appended |-> 0]
                    ELSE [pc |-> "deleted", i |-> 0, appended |-> 0]]
    /\ UNCHANGED <<buffer, heap, buf_ready, buf_count, n_samples,
                   record_status, sampleBuffer, mainPc, conf, actuator,
                   startRet, r, nStarts, nEnds>>
    /\ UNCHANGED ghostVars

\* inference.buffer[inference.buf_count++] = sampleBuffer[i];
\* A store through a null, freed or too short block is recorded in faults;
\* the store into a freed block still lands in that memory.
AppendSample(t) ==
    /\ tasks[t].pc = "append"
    /\ LET v == sampleBuffer[tasks[t].i + 1]
           inBlock == buf_count < Len(buffer)
       IN /\ buffer' = IF heap # "null" /\ inBlock
                       THEN [buffer EXCEPT ![buf_count + 1] = v]
                       ELSE buffer
          /\ faults' = faults
                \cup (IF heap = "null" THEN {"null_write"} ELSE {})
                \cup (IF heap = "freed" THEN {"write_after_free"} ELSE {})
                \cup (IF heap # "null" /\ ~inBlock THEN {"write_past_end"}
                      ELSE {})
          /\ hist' = LastN(Append(hist, v), n_samples)
    /\ buf_count' = buf_count + 1
    /\ sinceReady' = Min(sinceReady + 1, MaxWindow + 2)
    /\ tasks' = [tasks EXCEPT ![t].pc = "test", ![t].appended = @ + 1]
    /\ UNCHANGED <<heap, buf_ready, n_samples, record_status, sampleBuffer,
                   mainPc, conf, actuator, startRet, r, nStarts, nEnds,
                   nSpawn, nAlloc, nFree, completedWin, claimedWin,
                   unclaimed>>

\* if (inference.buf_count >= inference.n_samples)
TestFull(t) ==
    /\ tasks[t].pc = "test"
    /\ tasks' = [tasks EXCEPT ![t] =
                    IF WindowFull(buf_count, n_samples)
                    THEN [tasks[t] EXCEPT !.pc = "reset"]
                    ELSE NextSample(t)]
    /\ UNCHANGED <<buffer, heap, buf_ready, buf_count, n_samples,
                   record_status, sampleBuffer, mainPc, conf, actuator,
                   startRet, r, nStarts, nEnds>>
    /\ UNCHANGED ghostVars

\* The window is flagged without inference.buf_count = 0: the count goes
\* on from n_samples (a faulty variant, used to test C14).
ResetCountMissing(t) ==
    /\ tasks[t].pc = "reset"
    /\ tasks' = [tasks EXCEPT ![t].pc = "ready"]
    /\ UNCHANGED <<buffer, heap, buf_ready, buf_count, n_samples,
                   record_status, sampleBuffer, mainPc, conf, actuator,
                   startRet, r, nStarts, nEnds>>
    /\ UNCHANGED ghostVars

\* inference.buf_count = 0;
ResetCount(t) ==
    /\ tasks[t].pc = "reset"
    /\ buf_count' = 0
    /\ tasks' = [tasks EXCEPT ![t].pc = "ready"]
    /\ UNCHANGED <<buffer, heap, buf_ready, n_samples, record_status,
                   sampleBuffer, mainPc, conf, actuator, startRet, r, nStarts,
                   nEnds>>
    /\ UNCHANGED ghostVars

\* The window is completed without inference.buf_ready = 1 (a faulty
\* variant, used to test C17).
SetReadyNoFlag(t) ==
    /\ tasks[t].pc = "ready"
    /\ tasks' = [tasks EXCEPT ![t] = NextSample(t)]
    /\ completedWin' = hist
    /\ sinceReady' = 0
    /\ UNCHANGED <<buffer, heap, buf_ready, buf_count, n_samples,
                   record_status, sampleBuffer, mainPc, conf, actuator,
                   startRet, r, nStarts, nEnds, nSpawn, nAlloc, nFree, faults,
                   hist, claimedWin, unclaimed>>

\* inference.buf_ready = 1;  (the flag is written whatever its value was)
SetReady(t) ==
    /\ tasks[t].pc = "ready"
    /\ buf_ready' = 1
    /\ tasks' = [tasks EXCEPT ![t] = NextSample(t)]
    /\ completedWin' = hist
    /\ sinceReady' = 0
    /\ unclaimed' = Min(unclaimed + 1, MaxUnclaimed)
    /\ UNCHANGED <<buffer, heap, buf_count, n_samples, record_status,
                   sampleBuffer, mainPc, conf, actuator, startRet, r, nStarts,
                   nEnds, nSpawn, nAlloc, nFree, faults, hist, claimedWin>>

\* vTaskDelay(pdMS_TO_TICKS(5)) at the end of a cycle of capture_samples.
TaskDelay(t) ==
    /\ tasks[t].pc = "delay"
    /\ tasks' = [tasks EXCEPT ![t] = [pc |-> "while", i |-> 0, appended |-> 0]]
    /\ UNCHANGED <<buffer, heap, buf_ready, buf_count, n_samples,
                   record_status, sampleBuffer, mainPc, conf, actuator,
                   startRet, r, nStarts, nEnds>>
    /\ UNCHANGED ghostVars

capture_samples(t) ==
    \/ WhileCheck(t)
    \/ ReadSample(t)
    \/ IfCheck(t)
    \/ AppendSample(t)
    \/ TestFull(t)
    \/ ResetCount(t)
    \/ SetReady(t)
    \/ TaskDelay(t)


(* ------------------------ control loop (consumer) ---------------------- *)

\* result.classification[0].value is a float.  FloatUlps(c) is the float
\* nearest the confidence c / 10^5, counted in units of 2^-25, the spacing
\* of the floats of [0.25, 0.5); c * 2^25 / 10^5 = c * 2^20 / 3125 is
\* computed in two parts to stay within 32 bits, and rounded to nearest (a
\* tie cannot happen, 3125 being odd).
FloatUlps(c) ==
    LET a   == c * 512
        lo  == (a % 3125) * 2048
        q   == (a \div 3125) * 2048 + (lo \div 3125)
        rem == lo % 3125
    IN IF 2 * rem > 3125 THEN q + 1 ELSE q

\* The literal 0.40000 is a double: the comparison promotes the float to
\* double, which changes no value, and compares it with the double nearest
\* 0.4.  That double lies strictly between two neighbouring floats, so a
\* float exceeds it exactly when it exceeds the lower of the two.
DoubleFloorUlps(c) ==
    LET a  == c * 512
        lo == (a % 3125) * 2048
    IN (a \div 3125) * 2048 + (lo \div 3125)

\* if (result.classification[0].value > 0.40000)
ExceedsThreshold(c) == FloatUlps(c) > DoubleFloorUlps(Threshold)

\* The wait given up after one poll: microphone_inference_record goes on
\* whatever the flag is (a faulty variant, used to test C19).
PollReadyNoWait ==
    /\ mainPc = "record"
    /\ mainPc' = "clear"
    /\ UNCHANGED <<buffer, heap, buf_ready, buf_count, n_samples,
                   record_status, sampleBuffer, tasks, conf, actuator,
                   startRet, r, nStarts, nEnds>>
    /\ UNCHANGED ghostVars

\* while (inference.buf_ready == 0) delay(5);  one test of the flag.
PollReady ==
    /\ mainPc = "record"
    /\ mainPc' = IF buf_ready = 0 THEN "record" ELSE "clear"
    /\ UNCHANGED <<buffer, heap, buf_ready, buf_count, n_samples,
                   record_status, sampleBuffer, tasks, conf, actuator,
                   startRet, r, nStarts, nEnds>>
    /\ UNCHANGED ghostVars

\* microphone_inference_record returning without inference.buf_ready = 0
\* (a faulty variant, used to test C18).
ClearReadyKeepsFlag ==
    /\ mainPc = "clear"
    /\ mainPc' = "run"
    /\ claimedWin' = hist
    /\ unclaimed' = unclaimed - 1
    /\ UNCHANGED <<buffer, heap, buf_ready, buf_count, n_samples,
                   record_status, sampleBuffer, tasks, conf, actuator,
                   startRet, r, nStarts, nEnds, nSpawn, nAlloc, nFree, faults,
                   hist, completedWin, sinceReady>>

\* microphone_inference_record returning with the flag cleared and
\* buf_count too, as a consumer that rewinds the window would (a faulty
\* variant, used to test C20).
ClearReadyResetsCount ==
    /\ mainPc = "clear"
    /\ buf_ready' = 0
    /\ buf_count' = 0
    /\ mainPc' = "run"
    /\ claimedWin' = hist
    /\ unclaimed' = unclaimed - 1
    /\ UNCHANGED <<buffer, heap, n_samples, record_status, sampleBuffer,
                   tasks, conf, actuator, startRet, r, nStarts, nEnds, nSpawn,
                   nAlloc, nFree, faults, hist, completedWin, sinceReady>>

\* inference.buf_ready = 0; return true;  the consumer's claim.
ClearReady ==
    /\ mainPc = "clear"
    /\ buf_ready' = 0
    /\ mainPc' = "run"
    /\ claimedWin' = hist
    /\ unclaimed' = unclaimed - 1
    /\ UNCHANGED <<buffer, heap, buf_count, n_samples, record_status,
                   sampleBuffer, tasks, conf, actuator, startRet, r, nStarts,
                   nEnds, nSpawn, nAlloc, nFree, faults, hist, completedWin,
                   sinceReady>>

\* run_classifier reads the window through
\* microphone_audio_signal_get_data (&inference.buffer[offset]); the
\* consumer is reading from its claim until this step.
microphone_audio_signal_get_data ==
    /\ mainPc = "run"
    /\ mainPc' = "classify"
    /\ claimedWin' = <<>>
    /\ faults' = faults
          \cup (IF heap = "null" THEN {"null_read"} ELSE {})
          \cup (IF heap = "freed" THEN {"read_after_free"} ELSE {})
    /\ UNCHANGED <<buffer, heap, buf_ready, buf_count, n_samples,
                   record_status, sampleBuffer, tasks, conf, actuator,
                   startRet, r, nStarts, nEnds, nSpawn, nAlloc, nFree, hist,
                   completedWin, sinceReady, unclaimed>>

\* EI_IMPULSE_ERROR r = run_classifier(&signal, &result, debug_nn);
\* a success carries the confidence of label 0, a failure leaves the
\* zero-initialised result.
ClassifierReturn ==
    /\ mainPc = "classify"
    /\ \E okr \in BOOLEAN, c \in Confidences :
          IF okr
          THEN /\ r' = "EI_IMPULSE_OK"
               /\ conf' = c
          ELSE /\ r' = "error"
               /\ conf' = 0
    /\ mainPc' = "check"
    /\ UNCHANGED <<buffer, heap, buf_ready, buf_count, n_samples,
                   record_status, sampleBuffer, tasks, actuator, startRet,
                   nStarts, nEnds>>
    /\ UNCHANGED ghostVars

\* The test of r with the return left out: the pass goes on to the pin
\* whatever run_classifier returned (a faulty variant, used to test C12).
CheckResultFallsThrough ==
    /\ mainPc = "check"
    /\ mainPc' = "low"
    /\ r' = "none"
    /\ UNCHANGED <<buffer, heap, buf_ready, buf_count, n_samples,
                   record_status, sampleBuffer, tasks, conf, actuator,
                   startRet, nStarts, nEnds>>
    /\ UNCHANGED ghostVars

\* if (r != EI_IMPULSE_OK) { ei_printf(...); return; }  loop() is then
\* called again and starts at microphone_inference_record.
CheckResult ==
    /\ mainPc = "check"
    /\ mainPc' = IF r # "EI_IMPULSE_OK" THEN "record" ELSE "low"
    /\ r' = "none"
    /\ UNCHANGED <<buffer, heap, buf_ready, buf_count, n_samples,
                   record_status, sampleBuffer, tasks, conf, actuator,
                   startRet, nStarts, nEnds>>
    /\ UNCHANGED ghostVars

\* digitalWrite(33, LOW); then the comparison with the threshold, the last
\* use of the result in this pass.
WriteLow ==
    /\ mainPc = "low"
    /\ actuator' = "LOW"
    /\ mainPc' = IF ExceedsThreshold(conf) THEN "high" ELSE "yield"
    /\ conf' = 0
    /\ UNCHANGED <<buffer, heap, buf_ready, buf_count, n_samples,
                   record_status, sampleBuffer, tasks, startRet, r,
                   nStarts, nEnds>>
    /\ UNCHANGED ghostVars

\* digitalWrite(33, HIGH);
WriteHigh ==
    /\ mainPc = "high"
    /\ actuator' = "HIGH"
    /\ mainPc' = "yield"
    /\ UNCHANGED <<buffer, heap, buf_ready, buf_count, n_samples,
                   record_status, sampleBuffer, tasks, conf, startRet, r,
                   nStarts, nEnds>>
    /\ UNCHANGED ghostVars

\* vTaskDelay(pdMS_TO_TICKS(5)); loop() returns and is called again.
LoopYield ==
    /\ mainPc = "yield"
    /\ mainPc' = "record"
    /\ UNCHANGED <<buffer, heap, buf_ready, buf_count, n_samples,
                   record_status, sampleBuffer, tasks, conf, actuator,
                   startRet, r, nStarts, nEnds>>
    /\ UNCHANGED ghostVars

loop ==
    \/ PollReady
    \/ ClearReady
    \/ microphone_audio_signal_get_data
    \/ ClassifierReturn
    \/ CheckResult
    \/ WriteLow
    \/ WriteHigh
    \/ LoopYield

(* -------------------- lifecycle context: start / end ------------------- *)

\* A further call of microphone_inference_start, made while the sketch
\* runs.  The call is one step: the interleavings inside it are not
\* explored, so what RestartSpec reaches is a subset of what the code can.
LifeStart ==
    /\ mainPc # "setup"
    /\ nStarts < MaxStarts
    /\ nStarts' = nStarts + 1
    /\ \E n \in WindowSizes, ok \in BOOLEAN : microphone_inference_start(n, ok)
    /\ UNCHANGED <<sampleBuffer, mainPc, r, conf, actuator, startRet, nEnds,
                   nFree, faults, claimedWin>>

\* microphone_inference_end(): record_status = false; ei_free(buffer).
\* The pointer is left as it was, so the block it names is now freed;
\* freeing a block that is already freed is a double free; ei_free(NULL)
\* does nothing.
microphone_inference_end ==
    /\ record_status' = FALSE
    /\ heap' = IF heap = "null" THEN "null" ELSE "freed"
    /\ nFree' = IF heap = "null" THEN nFree ELSE nFree + 1
    /\ faults' = faults \cup (IF heap = "freed" THEN {"double_free"} ELSE {})

LifeEnd ==
    /\ mainPc # "setup"
    /\ nEnds < MaxEnds
    /\ nEnds' = nEnds + 1
    /\ microphone_inference_end
    /\ UNCHANGED <<buffer, buf_ready, buf_count, n_samples, sampleBuffer,
                   tasks, mainPc, conf, actuator, startRet, r, nStarts, nSpawn,
                   nAlloc, hist, completedWin, claimedWin, sinceReady,
                   unclaimed>>

(* --------------------------- specifications ---------------------------- *)

Next ==
    \/ Setup
    \/ \E t \in TaskIds : capture_samples(t)
    \/ loop

Spec == Init /\ [][Next]_vars

\* The sketch with both tasks scheduled fairly.  The capture task has
\* priority 10 and blocks in vTaskDelay once per cycle; the Arduino loop
\* task runs while it is blocked (and on the other core), and its own
\* delays are bounded; so each task takes its next step eventually.
FairSpec ==
    /\ Spec
    /\ WF_vars(loop)
    /\ \A t \in TaskIds : WF_vars(capture_samples(t))

\* The sketch plus calls of microphone_inference_end.
NextEnd ==
    \/ Next
    \/ LifeEnd

EndSpec == Init /\ [][NextEnd]_vars

\* The lifecycle and the capture tasks alone.  loop() is left out: all it
\* writes of the shared state is buf_ready, which no capture task reads.
NextRestart ==
    \/ Setup
    \/ \E t \in TaskIds : capture_samples(t)
    \/ LifeStart
    \/ LifeEnd

RestartSpec == Init /\ [][NextRestart]_vars

\* The capture task and calls of microphone_inference_end, the capture
\* task scheduled fairly: it is the task of highest priority (10) and
\* blocks only in vTaskDelay, for a bounded time, so FreeRTOS runs each of
\* its steps eventually.  loop() is left out: it writes nothing the task
\* reads.
NextCancel ==
    \/ Setup
    \/ \E t \in TaskIds : capture_samples(t)
    \/ LifeEnd

CancelSpec ==
    /\ Init
    /\ [][NextCancel]_vars
    /\ \A t \in TaskIds : WF_vars(capture_samples(t))

TypeOK ==
    /\ buf_ready \in {0, 1}
    /\ buf_count \in Nat
    /\ heap \in {"null", "live", "freed"}
    /\ record_status \in BOOLEAN
    /\ unclaimed \in (0 - MaxStarts)..MaxUnclaimed


(* ------------------------------- claims -------------------------------- *)

\* The session is TERMINATED: an end has cleared the flag and freed the
\* block, and every capture task has deleted itself.
Terminated ==
    /\ ~record_status
    /\ heap = "freed"
    /\ nSpawn > 0
    /\ AliveTasks = {}

\* C1: exactly-once delivery.  Every window the producer completes is
\* claimed once by the consumer: the completed windows not yet claimed are
\* exactly the one announced by buf_ready (none is lost because a later
\* window completes while buf_ready is still 1, none is claimed twice).
C1_ExactlyOnceDelivery == unclaimed = buf_ready

\* C2: from the claim (microphone_inference_record returns) and for as long
\* as the consumer reads the window, inference.buffer equals, in order, the
\* last n_samples values the producer had appended when the window was
\* claimed.
C2_ClaimedWindowUnmodified == mainPc = "run" => buffer = claimedWin

\* C3: buf_count goes back to 0 and buf_ready is written to 1 after exactly
\* n_samples appends since the last time (or since start), never before and
\* never later: the count of appends since then equals buf_count until the
\* window is full, the producer resets and flags only with exactly
\* n_samples appends made, and it makes no further append before it has.
C3_ReadyExactlyEveryNAppends ==
    /\ sinceReady <= n_samples
    /\ \A t \in TaskIds :
          /\ tasks[t].pc \in {"reset", "ready"} => sinceReady = n_samples
          /\ tasks[t].pc = "ready" => buf_count = 0
          /\ tasks[t].pc \notin {"none", "ready"} => buf_count = sinceReady
          /\ (Alive(t) /\ sinceReady = n_samples)
                => tasks[t].pc \in {"test", "reset", "ready"}

\* C3 witness: a second window has just been completed (the flag of the
\* first is still up) and the producer is about to flag it.
C3_Witness ==
    \E t \in TaskIds :
        /\ tasks[t].pc = "ready"
        /\ n_samples = MaxWindow
        /\ sinceReady = n_samples
        /\ unclaimed = 1

\* C4: the flag write and the count reset are one indivisible update: in no
\* state is buf_ready 1 while buf_count is not 0.
C4_ReadyImpliesCountZero == buf_ready = 1 => buf_count = 0

\* C5: whenever buf_ready is 1, inference.buffer holds exactly the samples
\* of the most recently completed window, none of them overwritten.
C5_ReadyWindowComplete == buf_ready = 1 => buffer = completedWin

\* C6: after a successful microphone_inference_start,
\* 0 <= buf_count <= n_samples in every state, the one between the
\* increment and the reset included.
C6_CountWithinWindow ==
    startRet = "true" => (0 <= buf_count /\ buf_count <= n_samples)

\* C6 witness: the state between the increment that fills the window and
\* the reset.
C6_Witness ==
    /\ startRet = "true"
    /\ n_samples = MaxWindow
    /\ buf_count = n_samples
    /\ \E t \in TaskIds : tasks[t].pc = "test"

\* C7: inference.buffer is never written (audio_inference_callback) or
\* read (microphone_audio_signal_get_data) after microphone_inference_end
\* has freed it.  (Its clause that the storage is freed once is what C8's
\* second call of microphone_inference_end breaks.)
C7_NoUseAfterFree ==
    /\ "write_after_free" \notin faults
    /\ "read_after_free" \notin faults

\* C8: a call of microphone_inference_end in a TERMINATED session is a
\* no-op: it frees nothing and changes no state.
C8_EndAfterTerminatedIsNoOp ==
    [][(Terminated /\ nEnds' = nEnds + 1)
          => (UNCHANGED progVars /\ nFree' = nFree /\ faults' = faults)]_vars

\* C9: when the allocation in setup's microphone_inference_start fails,
\* the call returns false, no capture task is spawned, buf_count,
\* n_samples, buf_ready and record_status keep their initial values, and
\* no producer ever appends.
C9_AllocFailureLeavesUninitialized ==
    startRet = "false" =>
        /\ nSpawn = 0
        /\ AliveTasks = {}
        /\ buf_count = 0
        /\ n_samples = 0
        /\ buf_ready = 0
        /\ record_status = TRUE
        /\ hist = <<>>
        /\ sinceReady = 0

\* C9 witness: the allocation failed and loop() is polling.
C9_Witness ==
    /\ startRet = "false"
    /\ heap = "null"
    /\ mainPc = "record"

\* C10: at any time at most one capture task is alive.
C10_AtMostOneProducer == Cardinality(AliveTasks) <= 1

\* C11: in a pass whose classification succeeded, pin 33 is written LOW
\* first and is then written HIGH exactly when the confidence of label 0 is
\* strictly greater than the threshold 0.40000; a confidence equal to the
\* threshold leaves the pin LOW, and no HIGH is written except after that
\* LOW.
C11_HighIffAboveThreshold ==
    [][/\ (mainPc = "low" /\ mainPc' # mainPc) =>
            /\ actuator' = "LOW"
            /\ (mainPc' = "high") <=> (conf > Threshold)
       /\ (actuator' = "HIGH" /\ actuator # "HIGH") =>
            (mainPc = "high" /\ actuator = "LOW")]_vars

\* C12: when run_classifier returns anything but EI_IMPULSE_OK the pass is
\* abandoned: pin 33 is not written, nothing of the handoff is touched, and
\* the control loop is back at the wait for a ready window.
C12_ErrorAbandonsPass ==
    [][(mainPc = "check" /\ r # "EI_IMPULSE_OK" /\ mainPc' # mainPc) =>
            /\ mainPc' = "record"
            /\ actuator' = actuator
            /\ UNCHANGED <<buffer, buf_ready, buf_count, n_samples>>]_vars

\* A failed classification is being tested while the pin is HIGH from an
\* earlier pass.
C12_Witness ==
    /\ mainPc = "check"
    /\ r = "error"
    /\ actuator = "HIGH"

C14_WritesInBounds ==
    /\ "write_past_end" \notin faults
    /\ \A t \in TaskIds :
          /\ tasks[t].pc = "append" =>
                /\ 0 <= buf_count
                /\ buf_count < n_samples
                /\ n_samples = Len(buffer)
                /\ tasks[t].i < sample_buffer_size
          /\ tasks[t].pc = "read" => tasks[t].i < sample_buffer_size

\* The store into the last element of the largest window has just been
\* made.
C14_Witness ==
    \E t \in TaskIds :
        /\ tasks[t].pc = "test"
        /\ buf_count = n_samples
        /\ n_samples = MaxWindow
        /\ faults = {}

\* C15: cancellation is cooperative.  Once microphone_inference_end has
\* cleared record_status, a capture task that tests the flag, before a
\* batch or after reading one, deletes itself without appending; the
\* appends it still makes are those of the batch it was appending, at most
\* sample_buffer_size of them; and, scheduled fairly, it ends up deleted.
C15_CooperativeCancellation ==
    /\ [][\A t \in TaskIds :
            (/\ ~record_status
             /\ tasks[t].pc \in {"while", "if"}
             /\ tasks'[t] # tasks[t]) =>
                (/\ tasks'[t].pc = "deleted"
                 /\ buffer' = buffer
                 /\ buf_count' = buf_count)]_vars
    /\ [](\A t \in TaskIds : tasks[t].appended <= sample_buffer_size)
    /\ (~record_status) ~> (AliveTasks = {})

\* The flag is false at the test that follows the read of a batch.
C15_Witness ==
    \E t \in TaskIds :
        /\ tasks[t].pc = "if"
        /\ ~record_status
        /\ nEnds > 0

\* C16: within a window the n_samples stores into inference.buffer come
\* before the store buf_ready = 1: at every step that takes buf_ready from
\* 0 to 1 the buffer already holds the whole window, its last sample
\* included, and the step itself stores nothing into it.
C16_AppendsPrecedeReady ==
    [][(buf_ready = 0 /\ buf_ready' = 1) =>
            /\ \E t \in TaskIds : tasks[t].pc = "ready"
            /\ sinceReady = n_samples
            /\ Len(hist) = n_samples
            /\ buffer = hist
            /\ buffer' = buffer]_vars

\* The control loop is polling and the flag of a complete largest window
\* has just gone from 0 to 1.
C16_Witness ==
    /\ mainPc = "record"
    /\ buf_ready = 1
    /\ unclaimed = 1
    /\ sinceReady = 0
    /\ n_samples = MaxWindow
    /\ buffer = completedWin
    /\ Len(completedWin) = n_samples

\* C17: while the session is active (the start succeeded and record_status
\* stays true) and both tasks are scheduled fairly, every call of
\* microphone_inference_record finds buf_ready = 1 at some poll and
\* returns: from any point of an active session the control loop claims a
\* window again, hence infinitely often.
C17_EveryRecordReturns ==
    /\ (startRet = "true" /\ mainPc = "record") ~> (mainPc = "run")
    /\ (startRet = "true") ~> (mainPc = "clear")

\* A call of microphone_inference_record has returned with a claim in an
\* active session, after an earlier pass that drove the pin HIGH.
C17_Witness ==
    /\ startRet = "true"
    /\ record_status
    /\ mainPc = "run"
    /\ actuator = "HIGH"
    /\ buf_ready = 0

\* C18: the returns of microphone_inference_record never outnumber the
\* completions of a window (the writes buf_ready = 1): a return is made
\* only on a flag that a completion set and no earlier return has cleared.
C18_ClaimsAtMostCompletions ==
    /\ unclaimed >= 0
    /\ mainPc = "clear" => (buf_ready = 1 /\ unclaimed >= 1)

\* A later call of microphone_inference_record has returned, taking the
\* only completion not yet claimed.
C18_Witness ==
    /\ mainPc = "run"
    /\ unclaimed = 0
    /\ buf_ready = 0
    /\ actuator = "HIGH"

\* No producer will set buf_ready again: setup is over, no capture task is
\* alive (none was created, or it has deleted itself), the flag is 0 and
\* the control loop is in the wait of microphone_inference_record.
NoProducerLeft ==
    /\ mainPc = "record"
    /\ buf_ready = 0
    /\ AliveTasks = {}

\* C19: microphone_inference_record returns only true, so loop() always
\* goes on from its return to the classifier, never through the failure
\* branch; and it has no timeout: once no producer will set buf_ready
\* again, the control loop stays in the poll for ever, and neither writes
\* pin 33 nor runs the classifier again.
C19_PollsForeverWithoutProducer ==
    [][/\ (mainPc = "clear" /\ mainPc' # mainPc) => mainPc' = "run"
       /\ NoProducerLeft =>
            /\ NoProducerLeft'
            /\ actuator' = actuator
            /\ r' = r]_vars

\* The capture task has deleted itself after a microphone_inference_end,
\* with no window flagged, while the pin is HIGH from an earlier pass.
C19_Witness ==
    /\ NoProducerLeft
    /\ nSpawn = 1
    /\ nEnds > 0
    /\ actuator = "HIGH"

\* C20: the consumer side (microphone_inference_record and the read of
\* the window by microphone_audio_signal_get_data) changes buf_ready only,
\* and only from 1 to 0; it leaves buf_count, n_samples and the contents
\* of the buffer as they are.  The producer side changes buf_ready only to
\* 1, and is never held back by it: a capture task that is alive can take
\* its next step whatever the flag is (no backpressure).
C20_FrameOfTheHandoff ==
    /\ [][/\ (mainPc # "setup" /\ mainPc' # mainPc) =>
                /\ UNCHANGED <<buf_count, n_samples, buffer>>
                /\ buf_ready' # buf_ready =>
                      (mainPc = "clear" /\ buf_ready = 1 /\ buf_ready' = 0)
          /\ (mainPc' = mainPc /\ tasks' # tasks /\ buf_ready' # buf_ready) =>
                buf_ready' = 1]_vars
    /\ [](\A t \in TaskIds : Alive(t) => ENABLED capture_samples(t))

\* A sample has been appended while the flag of the previous window was
\* still set.
C20_Witness ==
    \E t \in TaskIds :
        /\ tasks[t].pc = "test"
        /\ buf_ready = 1
        /\ buf_count > 0
        /\ unclaimed = 1

====
